---- MODULE Spec2Model ----
(***************************************************************************)
(* The GamePage table view of QPoker: the mount effect that opens a table  *)
(* (join, retry timer, four channel listeners, asynchronous initial load), *)
(* its cleanup, and the handlers that reconcile pushed events into the     *)
(* React state of the component.                                           *)
(***************************************************************************)
EXTENDS Integers, Sequences, FiniteSets, TLC

VARIABLES view, lobbyId, playerId, st, opens, listeners,
          lastEvent, lastGame, resolved, dismissed,
          auth, storage, lobbies

vars == <<view, lobbyId, playerId, st, opens, listeners,
          lastEvent, lastGame, resolved, dismissed, auth, storage, lobbies>>

\* The state of the application outside the table view: the AuthProvider
\* (user, token, loading), the browser's localStorage and the lobby list
\* of the home page.
app == <<auth, storage, lobbies>>

\* The state of the table view.
page == <<view, lobbyId, playerId, st, opens, listeners, lastGame, resolved, dismissed>>

(***************************************************************************)
(* Bounds of the model.                                                    *)
(***************************************************************************)
MaxOpens == 2
MaxHistory == 2
MaxBettors == 3
MaxUsers == 3
MaxLobbies == 3
TickMs == 500

(***************************************************************************)
(* Program constants.                                                      *)
(***************************************************************************)
RetryDelayMs == 1000

\* JS null / undefined in a slot that otherwise holds an object.
null == [null |-> TRUE]
\* JS null in the string-valued error slot.
NoError == "null"

NoParam == "none"
LobbyIds == {"A", "B"}
ViewerIds == {"p1"}

EventNames == {"game:update", "lobby:update", "error", "gate_preview"}

ErrLobbyNotFound == "Lobby not found"
ErrAlreadyInGame == "Lobby already in game"
ErrOther == "Not your turn"
ErrorDetails == {ErrLobbyNotFound, ErrAlreadyInGame, ErrOther}

MsgAlreadyStarted == "This game has already started. You cannot join an ongoing game."
MsgLoadFailed == "Failed to load game data"

\* error.includes('already started') over the strings the error slot can hold.
IncludesAlreadyStarted(e) == e \in {MsgAlreadyStarted}

Has(o, f) == f \in DOMAIN o

(***************************************************************************)
(* Payloads of the game:update event.                                      *)
(***************************************************************************)
NoFields == [x \in {} |-> x]

PlayersNamed == [p1 |-> [name |-> "Alice"], p2 |-> [chips |-> 100]]
PlayersNoViewer == [p2 |-> [name |-> "Bob"]]
PlayerMaps == {PlayersNamed, PlayersNoViewer}

Phases == {"flop", "complete"}

\* A snapshot, with its players map or (malformed) without it.
Snapshots == [phase : Phases, players : PlayerMaps] \cup [phase : Phases]

WinP1 == [player_id |-> "p1", description |-> "Flush", hand_rank |-> 5, winnings |-> 120]
WinP2a == [player_id |-> "p2", description |-> "Pair", hand_rank |-> 1, winnings |-> 60]
WinP1b == [player_id |-> "p1", description |-> "Pair", hand_rank |-> 1, winnings |-> 40]

OutcomeParts ==
    { NoFields,
      [auto_win |-> TRUE, winner |-> "p2", winnings |-> 300],
      [auto_win |-> TRUE, winner |-> "p1"],
      [auto_win |-> TRUE],
      [auto_win |-> TRUE, winner |-> "p2", winnings |-> 300, winners |-> <<WinP1>>],
      [winners |-> <<WinP1>>],
      [winners |-> <<WinP2a>>],
      [winners |-> <<WinP2a, WinP1b>>],
      [winners |-> <<>>] }

GateFull == [gate |-> "X", original_card |-> "7C", result_card |-> "7D"]
GatePartial == [gate |-> "X", result_card |-> "7D"]

GateParts ==
    { NoFields,
      [gate_applied |-> TRUE, gate_info |-> GateFull],
      [gate_applied |-> TRUE, gate_info |-> GatePartial],
      [gate_applied |-> TRUE] }

OutcomePayloads == [state : Snapshots] \cup [state : Snapshots, result : OutcomeParts]

LedgerResults ==
    GateParts \cup { [winners |-> <<WinP1>>] @@ g : g \in GateParts \ {NoFields} }

LedgerPayloads == [state : Snapshots] \cup [state : Snapshots, result : LedgerResults]

Previews == { [gate |-> "X", original_card |-> "7C", result_card |-> "7D"],
              [gate |-> "Z", original_card |-> "7C", result_card |-> "7C"] }

LobbyData == [lobby_id : LobbyIds, in_game : BOOLEAN]

\* The events of the session specifications.
SessionPayloads == { [state |-> [phase |-> "flop", players |-> PlayersNamed]] }
SessionLobbies == [lobby_id : LobbyIds, in_game : {TRUE}]
SessionErrors == ErrorDetails
SessionPreviews == { [gate |-> "X", original_card |-> "7C", result_card |-> "7D"] }

NoPayload == [none |-> TRUE]

(***************************************************************************)
(* AuthProvider: useState initial values (lines 14-16).  The token slot    *)
(* holds a string, NoToken for null / undefined.                           *)
(***************************************************************************)
NoToken == "<unset>"

AuthInitial == [user |-> null, token |-> NoToken, loading |-> TRUE]

(***************************************************************************)
(* useState initial values (lines 89-96).                                  *)
(***************************************************************************)
InitialState ==
    [ gameState |-> null,
      lobby |-> null,
      loading |-> TRUE,
      error |-> NoError,
      gatePreview |-> null,
      cardHistory |-> [p \in {"p1", "p2"} |-> <<>>],
      showWinnerPopup |-> FALSE,
      winnerInfo |-> null ]

(***************************************************************************)
(* OutcomeResolver: the winnerInfo computed by the game:update handler.    *)
(***************************************************************************)
\* A fallback to the bare identifier.
DisplayNameRaw(players, id) ==
    IF id \in DOMAIN players /\ Has(players[id], "name") /\ players[id].name # ""
    THEN players[id].name
    ELSE id

\* winnerPlayer?.name || `Player ${winnerId}`
DisplayName(players, id) ==
    IF id \in DOMAIN players /\ Has(players[id], "name") /\ players[id].name # ""
    THEN players[id].name
    ELSE "Player " \o id

AutoWinCond(p) ==
    /\ Has(p, "result")
    /\ Has(p.result, "auto_win") /\ p.result.auto_win
    /\ Has(p.result, "winner") /\ p.result.winner # ""

WinnersCond(p) ==
    Has(p, "result") /\ Has(p.result, "winners")

ResultWinnings(r) == IF Has(r, "winnings") THEN r.winnings ELSE 0

\* An auto-win outcome that never recognizes the viewer.
AutoWinInfoViewerBlind(p, pid) ==
    LET winnerId == p.result.winner
        name == DisplayName(p.state.players, winnerId)
    IN [ playerName |-> name,
         handDescription |-> "Auto-win (all others folded)",
         handRank |-> 0,
         winnings |-> ResultWinnings(p.result),
         isCurrentPlayer |-> FALSE,
         isTie |-> FALSE,
         isAutoWin |-> TRUE,
         allWinners |-> << [ name |-> name,
                             description |-> "Auto-win (all others folded)",
                             winnings |-> ResultWinnings(p.result) ] >> ]

AutoWinInfo(p, pid) ==
    LET winnerId == p.result.winner
        name == DisplayName(p.state.players, winnerId)
    IN [ playerName |-> name,
         handDescription |-> "Auto-win (all others folded)",
         handRank |-> 0,
         winnings |-> ResultWinnings(p.result),
         isCurrentPlayer |-> (winnerId = pid),
         isTie |-> FALSE,
         isAutoWin |-> TRUE,
         allWinners |-> << [ name |-> name,
                             description |-> "Auto-win (all others folded)",
                             winnings |-> ResultWinnings(p.result) ] >> ]

\* Every winner entry given the representative winner's winnings.
ShowdownInfoEqualized(p, pid) ==
    LET winners == p.result.winners
        winner == winners[1]
    IN [ playerName |-> DisplayName(p.state.players, winner.player_id),
         handDescription |-> winner.description,
         handRank |-> winner.hand_rank,
         winnings |-> winner.winnings,
         isCurrentPlayer |-> (\E i \in 1..Len(winners) : winners[i].player_id = pid),
         isTie |-> (Len(winners) > 1),
         isAutoWin |-> FALSE,
         allWinners |-> [ i \in 1..Len(winners) |->
                            [ name |-> DisplayName(p.state.players, winners[i].player_id),
                              description |-> winners[i].description,
                              winnings |-> winner.winnings ] ] ]

\* isCurrentPlayer tested on the representative winner only.
ShowdownInfoFirstOnly(p, pid) ==
    LET winners == p.result.winners
        winner == winners[1]
    IN [ playerName |-> DisplayName(p.state.players, winner.player_id),
         handDescription |-> winner.description,
         handRank |-> winner.hand_rank,
         winnings |-> winner.winnings,
         isCurrentPlayer |-> (winner.player_id = pid),
         isTie |-> (Len(winners) > 1),
         isAutoWin |-> FALSE,
         allWinners |-> [ i \in 1..Len(winners) |->
                            [ name |-> DisplayName(p.state.players, winners[i].player_id),
                              description |-> winners[i].description,
                              winnings |-> winners[i].winnings ] ] ]

ShowdownInfo(p, pid) ==
    LET winners == p.result.winners
        winner == winners[1]
    IN [ playerName |-> DisplayName(p.state.players, winner.player_id),
         handDescription |-> winner.description,
         handRank |-> winner.hand_rank,
         winnings |-> winner.winnings,
         isCurrentPlayer |-> (\E i \in 1..Len(winners) : winners[i].player_id = pid),
         isTie |-> (Len(winners) > 1),
         isAutoWin |-> FALSE,
         allWinners |-> [ i \in 1..Len(winners) |->
                            [ name |-> DisplayName(p.state.players, winners[i].player_id),
                              description |-> winners[i].description,
                              winnings |-> winners[i].winnings ] ] ]

\* The handler without its auto-win branch.
OutcomeBranchNoAuto(p) ==
    IF WinnersCond(p) THEN "winners" ELSE "none"

\* The two branches tested in the opposite order.
OutcomeBranchWinnersFirst(p) ==
    IF WinnersCond(p) THEN "winners"
    ELSE IF AutoWinCond(p) THEN "auto"
    ELSE "none"

\* The branch the handler takes for a complete-phase payload.
OutcomeBranch(p) ==
    IF AutoWinCond(p) THEN "auto"
    ELSE IF WinnersCond(p) THEN "winners"
    ELSE "none"

\* A TypeError leaves the handler: players[...] of undefined, or
\* winner.player_id of the undefined first entry of an empty list.
OutcomeThrows(p) ==
    \/ OutcomeBranch(p) = "auto" /\ ~Has(p.state, "players")
    \/ OutcomeBranch(p) = "winners"
         /\ (Len(p.result.winners) = 0 \/ ~Has(p.state, "players"))

ResolveOutcome(p, pid) ==
    IF OutcomeBranch(p) = "auto" THEN AutoWinInfo(p, pid)
    ELSE IF OutcomeBranch(p) = "winners" THEN ShowdownInfo(p, pid)
    ELSE null

(***************************************************************************)
(* TransformationLedger: the setCardHistory updater.                       *)
(***************************************************************************)
GateCond(p) ==
    /\ Has(p, "result")
    /\ Has(p.result, "gate_applied") /\ p.result.gate_applied
    /\ Has(p.result, "gate_info")

GateThrows(p) == GateCond(p) /\ ~Has(p.state, "players")

\* A find() that leaves the phase out of the comparison.
ExistingEntryNoPhase(hist, gateInfo, phase) ==
    \E i \in 1..Len(hist) :
        /\ Has(gateInfo, "original_card") /\ hist[i].originalCard = gateInfo.original_card
        /\ hist[i].resultCard = gateInfo.result_card
        /\ hist[i].gate = gateInfo.gate

\* The find() of lines 190-195: the stored fields against the raw event.
ExistingEntry(hist, gateInfo, phase) ==
    \E i \in 1..Len(hist) :
        /\ Has(gateInfo, "original_card") /\ hist[i].originalCard = gateInfo.original_card
        /\ hist[i].resultCard = gateInfo.result_card
        /\ hist[i].gate = gateInfo.gate
        /\ hist[i].phase = phase

NewEntry(gateInfo, phase) ==
    [ gate |-> gateInfo.gate,
      originalCard |-> IF Has(gateInfo, "original_card") /\ gateInfo.original_card # ""
                       THEN gateInfo.original_card ELSE "Unknown",
      resultCard |-> gateInfo.result_card,
      phase |-> phase ]

\* An updater that puts the new record first.
RecordGatePrepend(cardHistory, pid, gateInfo, phase) ==
    IF ExistingEntry(cardHistory[pid], gateInfo, phase)
    THEN cardHistory
    ELSE [cardHistory EXCEPT ![pid] = <<NewEntry(gateInfo, phase)>> \o @]

\* An updater that files every record under one fixed id.
RecordGateFixedId(cardHistory, pid, gateInfo, phase) ==
    IF ExistingEntry(cardHistory["p1"], gateInfo, phase)
    THEN cardHistory
    ELSE [cardHistory EXCEPT !["p1"] = Append(@, NewEntry(gateInfo, phase))]

RecordGate(cardHistory, pid, gateInfo, phase) ==
    IF ExistingEntry(cardHistory[pid], gateInfo, phase)
    THEN cardHistory
    ELSE [cardHistory EXCEPT ![pid] = Append(@, NewEntry(gateInfo, phase))]

(***************************************************************************)
(* The four listeners, as functions of the held state s, for a listener    *)
(* registered by an open with route parameters (lid, pid).                 *)
(***************************************************************************)
\* A field-level merge of the new snapshot into the held one.
ApplySnapshotMerge(s, p) ==
    [s EXCEPT !.gameState = IF s.gameState = null THEN p.state ELSE p.state @@ s.gameState,
              !.gatePreview = null]

\* A replacement that leaves the preview alone.
ApplySnapshotKeepPreview(s, p) ==
    [s EXCEPT !.gameState = p.state]

\* setGameState(payload.state); setGatePreview(null)
ApplySnapshot(s, p) ==
    [s EXCEPT !.gameState = p.state, !.gatePreview = null]

\* A TypeError leaves the listener; the setters already called still apply.
OnGameUpdateThrows(p) ==
    \/ p.state.phase = "complete" /\ OutcomeThrows(p)
    \/ GateThrows(p)

\* A listener that resolves an outcome whatever the phase.
OnGameUpdateAnyPhase(s, p, pid) ==
    LET s1 == ApplySnapshot(s, p)
        info == ResolveOutcome(p, pid)
        s2 == IF info # null
              THEN [s1 EXCEPT !.winnerInfo = info, !.showWinnerPopup = TRUE]
              ELSE s1
        s3 == IF GateCond(p) /\ pid \in DOMAIN p.state.players
              THEN [s2 EXCEPT !.cardHistory =
                        RecordGate(@, pid, p.result.gate_info, p.state.phase)]
              ELSE s2
    IN IF OutcomeThrows(p) THEN s1
       ELSE IF GateThrows(p) THEN s2
       ELSE s3

OnGameUpdate(s, p, pid) ==
    LET s1 == ApplySnapshot(s, p)
        complete == p.state.phase = "complete"
        info == ResolveOutcome(p, pid)
        s2 == IF complete /\ info # null
              THEN [s1 EXCEPT !.winnerInfo = info, !.showWinnerPopup = TRUE]
              ELSE s1
        s3 == IF GateCond(p) /\ pid \in DOMAIN p.state.players
              THEN [s2 EXCEPT !.cardHistory =
                        RecordGate(@, pid, p.result.gate_info, p.state.phase)]
              ELSE s2
    IN IF complete /\ OutcomeThrows(p) THEN s1
       ELSE IF GateThrows(p) THEN s2
       ELSE s3

\* A lobby listener without the lobby_id test.
OnLobbyUpdateAny(s, lobbyData, lid) ==
    [s EXCEPT !.lobby = lobbyData]

OnLobbyUpdate(s, lobbyData, lid) ==
    IF lobbyData.lobby_id = lid THEN [s EXCEPT !.lobby = lobbyData] ELSE s

\* An error listener without the 'Lobby not found' exemption.
OnErrorNoTransient(s, detail) ==
    IF detail = ErrAlreadyInGame
    THEN [s EXCEPT !.error = MsgAlreadyStarted]
    ELSE [s EXCEPT !.error = detail]

\* An error listener in which 'Lobby not found' resets the error.
OnErrorTransientClears(s, detail) ==
    IF detail # ErrLobbyNotFound
    THEN IF detail = ErrAlreadyInGame
         THEN [s EXCEPT !.error = MsgAlreadyStarted]
         ELSE [s EXCEPT !.error = detail]
    ELSE [s EXCEPT !.error = NoError]

OnError(s, detail) ==
    IF detail # ErrLobbyNotFound
    THEN IF detail = ErrAlreadyInGame
         THEN [s EXCEPT !.error = MsgAlreadyStarted]
         ELSE [s EXCEPT !.error = detail]
    ELSE s

\* A preview listener that keeps a preview already held.
OnGatePreviewKeepFirst(s, preview) ==
    IF s.gatePreview = null THEN [s EXCEPT !.gatePreview = preview] ELSE s

OnGatePreview(s, preview) == [s EXCEPT !.gatePreview = preview]

(***************************************************************************)
(* One open of the table view: what the mount effect of lines 98-244 sets  *)
(* up.  error is the value of the error state in the render whose effect   *)
(* this is; the retry callback closes over it.  left is the time the retry *)
(* timer still has to run.  closed, joins[i].at and permAt are history:   *)
(* permAt is the state the retry timer was in when this open first heard   *)
(* the permanent error ("due": the delay has elapsed, the callback has not *)
(* run yet).                                                               *)
(***************************************************************************)
JoinMsg(lid, pid, at) == [lobby_id |-> lid, player_id |-> pid, at |-> at]

\* An effect that leaves the first join to the timer.
NewOpenNoJoin(lid, pid, err) ==
    [ lobbyId |-> lid,
      playerId |-> pid,
      error |-> err,
      timer |-> "pending",
      left |-> RetryDelayMs,
      load |-> "pending",
      closed |-> FALSE,
      joins |-> << >>,
      permAt |-> "never" ]

NewOpen(lid, pid, err) ==
    [ lobbyId |-> lid,
      playerId |-> pid,
      error |-> err,
      timer |-> "pending",
      left |-> RetryDelayMs,
      load |-> "pending",
      closed |-> FALSE,
      joins |-> << JoinMsg(lid, pid, 0) >>,
      permAt |-> "never" ]

\* socket.on(...) x 4 for the open with index k.  createSocket() hands out
\* the page's one channel, so listeners holds, per event name, the opens
\* whose handler is registered on it.
Subscribe(ls, k) == [e \in EventNames |-> ls[e] \cup {k}]

\* The effect body: loadGameData(), joinRoom(), setTimeout, socket.on x 4.
RunEffect(os, lid, pid, err) == Append(os, NewOpen(lid, pid, err))

\* A cleanup that forgets clearTimeout(retryTimer).
CleanupTimerLeaky(o) ==
    [o EXCEPT !.closed = TRUE]

\* The effect cleanup: clearTimeout(retryTimer) ...
CleanupTimer(o) ==
    [o EXCEPT !.timer = IF @ = "pending" THEN "cleared" ELSE @, !.closed = TRUE]

\* ... and socket.off(name) x 4, which drops every listener of that name.
CleanupListeners(ls) ==
    [e \in EventNames |-> {}]

\* The condition under which the retry callback calls joinRoom().
RetryAllowed(o) == o.error = NoError \/ ~IncludesAlreadyStarted(o.error)

\* setTimeout(..., 1000): the callback runs once the delay has elapsed.
TimerDue(o) == o.timer = "pending" /\ o.left = 0

Max(a, b) == IF a >= b THEN a ELSE b
MinOf(S) == CHOOSE x \in S : \A y \in S : x <= y

Cur == Len(opens)

TypeOK ==
    /\ view \in {"new", "open", "closed"}
    /\ lobbyId \in LobbyIds \cup {NoParam}
    /\ playerId \in ViewerIds \cup {NoParam}
    /\ Len(opens) <= MaxOpens
    /\ \A e \in EventNames : listeners[e] \subseteq 1..Len(opens)

Init ==
    /\ view = "new"
    /\ lobbyId = NoParam
    /\ playerId = NoParam
    /\ st = InitialState
    /\ opens = <<>>
    /\ listeners = [e \in EventNames |-> {}]
    /\ lastEvent = [type |-> "init"]
    /\ lastGame = NoPayload
    /\ resolved = FALSE
    /\ dismissed = FALSE
    /\ auth = AuthInitial
    /\ storage = NoFields
    /\ lobbies = <<>>

(***************************************************************************)
(* Lifecycle of the component.                                             *)
(***************************************************************************)
Mount(lid, pid) ==
    /\ view = "new"
    /\ view' = "open"
    /\ lobbyId' = lid
    /\ playerId' = pid
    /\ opens' = RunEffect(opens, lid, pid, st.error)
    /\ listeners' = Subscribe(listeners, Len(opens) + 1)
    /\ lastEvent' = [type |-> "open", open |-> Len(opens) + 1]
    /\ UNCHANGED <<app, st, lastGame, resolved, dismissed>>

\* The route parameters change while the component stays mounted: React
\* runs the cleanup of the previous effect, then the effect again.
ChangeView(lid, pid) ==
    /\ view = "open"
    /\ <<lid, pid>> # <<lobbyId, playerId>>
    /\ Len(opens) < MaxOpens
    /\ lobbyId' = lid
    /\ playerId' = pid
    /\ LET closedOpens == [opens EXCEPT ![Cur] = CleanupTimer(@)]
       IN opens' = RunEffect(closedOpens, lid, pid, st.error)
    /\ listeners' = Subscribe(CleanupListeners(listeners), Len(opens) + 1)
    /\ lastEvent' = [type |-> "open", open |-> Len(opens) + 1]
    /\ lastGame' = NoPayload
    /\ UNCHANGED <<app, view, st, resolved, dismissed>>

Unmount ==
    /\ view = "open"
    /\ view' = "closed"
    /\ opens' = [opens EXCEPT ![Cur] = CleanupTimer(@)]
    /\ listeners' = CleanupListeners(listeners)
    /\ lastEvent' = [type |-> "close", open |-> Cur]
    /\ UNCHANGED <<app, lobbyId, playerId, st, lastGame, resolved, dismissed>>

(***************************************************************************)
(* The retry timer.                                                        *)
(***************************************************************************)
Tick ==
    /\ \E k \in 1..Len(opens) : opens[k].timer = "pending" /\ opens[k].left > 0
    /\ opens' = [k \in 1..Len(opens) |->
                    IF opens[k].timer = "pending"
                    THEN [opens[k] EXCEPT !.left = Max(0, @ - TickMs)]
                    ELSE opens[k]]
    /\ lastEvent' = [type |-> "tick"]
    /\ UNCHANGED <<app, view, lobbyId, playerId, st, listeners, lastGame, resolved, dismissed>>

\* A timer whose callback never joins again.
RetryTimerSilent(k) ==
    /\ k \in 1..Len(opens)
    /\ TimerDue(opens[k])
    /\ opens' = [opens EXCEPT ![k].timer = "fired"]
    /\ lastEvent' = [type |-> "timer", open |-> k]
    /\ UNCHANGED <<app, view, lobbyId, playerId, st, listeners, lastGame, resolved, dismissed>>

RetryTimer(k) ==
    /\ k \in 1..Len(opens)
    /\ TimerDue(opens[k])
    /\ opens' = [opens EXCEPT ![k] =
                    [@ EXCEPT !.timer = "fired",
                              !.joins = IF RetryAllowed(opens[k])
                                        THEN Append(@, JoinMsg(opens[k].lobbyId,
                                                               opens[k].playerId,
                                                               RetryDelayMs - opens[k].left))
                                        ELSE @]]
    /\ lastEvent' = [type |-> "timer", open |-> k]
    /\ UNCHANGED <<app, view, lobbyId, playerId, st, listeners, lastGame, resolved, dismissed>>

(***************************************************************************)
(* loadGameData of open k settles.  gameData is null when getState failed  *)
(* (caught); lobbyOk = FALSE is a rejected getLobby.  State setters of an  *)
(* unmounted component do nothing.                                         *)
(***************************************************************************)
\* A load without the finally block: a failed load leaves loading as it was.
LoadResultNoFinally(s, o, gameData, lobbyOk, inGame) ==
    IF lobbyOk
    THEN [s EXCEPT !.gameState = gameData,
                   !.lobby = [lobby_id |-> o.lobbyId, in_game |-> inGame],
                   !.loading = FALSE]
    ELSE [s EXCEPT !.error = MsgLoadFailed]

LoadResult(s, o, gameData, lobbyOk, inGame) ==
    IF lobbyOk
    THEN [s EXCEPT !.gameState = gameData,
                   !.lobby = [lobby_id |-> o.lobbyId, in_game |-> inGame],
                   !.loading = FALSE]
    ELSE [s EXCEPT !.error = MsgLoadFailed, !.loading = FALSE]

LoadGameData(k, gameData, lobbyOk, inGame) ==
    /\ k \in 1..Len(opens)
    /\ opens[k].load = "pending"
    /\ opens' = [opens EXCEPT ![k].load = "done"]
    /\ st' = IF view = "open"
             THEN LoadResult(st, opens[k], gameData, lobbyOk, inGame)
             ELSE st
    /\ lastEvent' = [type |-> "load", open |-> k,
                      gameData |-> gameData, lobbyOk |-> lobbyOk]
    /\ UNCHANGED <<app, view, lobbyId, playerId, listeners, lastGame, resolved, dismissed>>

(***************************************************************************)
(* Delivery of a channel event to the listeners registered for it, in      *)
(* registration order.  lastGame, resolved and dismissed are history:      *)
(* the last game update this open heard, whether an outcome was produced   *)
(* for the game now complete, and whether the viewer dismissed its popup.  *)
(* lastEvent is history too: the step just taken, for a game update with   *)
(* whether its listener threw, whether a preview was held and whether a    *)
(* different snapshot was held when it arrived.                            *)
(***************************************************************************)
Handle(s, ev, arg, o) ==
    CASE ev = "game:update" -> OnGameUpdate(s, arg, o.playerId)
      [] ev = "lobby:update" -> OnLobbyUpdate(s, arg, o.lobbyId)
      [] ev = "error" -> OnError(s, arg)
      [] ev = "gate_preview" -> OnGatePreview(s, arg)

RECURSIVE Dispatch(_, _, _, _)
Dispatch(s, ev, arg, ks) ==
    IF ks = {} THEN s
    ELSE LET k == MinOf(ks)
         IN Dispatch(Handle(s, ev, arg, opens[k]), ev, arg, ks \ {k})

Deliver(ev, arg) ==
    IF view = "open" THEN Dispatch(st, ev, arg, listeners[ev]) ELSE st

Heard(ev) == view = "open" /\ listeners[ev] # {}

HistoryBounded(s) ==
    \A p \in DOMAIN s.cardHistory : Len(s.cardHistory[p]) <= MaxHistory

GameUpdate(p) ==
    /\ view # "new"
    /\ HistoryBounded(Deliver("game:update", p))
    /\ st' = Deliver("game:update", p)
    /\ lastEvent' = [ type |-> "game:update", payload |-> p,
                      heard |-> Heard("game:update"),
                      threw |-> (Heard("game:update") /\ OnGameUpdateThrows(p)),
                      hadPreview |-> (Heard("game:update") /\ st.gatePreview # null),
                      replaced |-> (Heard("game:update") /\ st.gameState # null
                                        /\ st.gameState # p.state) ]
    /\ lastGame' = IF Heard("game:update") THEN p ELSE lastGame
    /\ IF ~Heard("game:update") THEN UNCHANGED <<resolved, dismissed>>
       ELSE IF p.state.phase # "complete" THEN resolved' = FALSE /\ dismissed' = FALSE
       ELSE IF ~OutcomeThrows(p) /\ OutcomeBranch(p) # "none"
            THEN resolved' = TRUE /\ dismissed' = (dismissed /\ resolved)
       ELSE UNCHANGED <<resolved, dismissed>>
    /\ UNCHANGED <<app, view, lobbyId, playerId, opens, listeners>>

LobbyUpdate(lobbyData) ==
    /\ view # "new"
    /\ st' = Deliver("lobby:update", lobbyData)
    /\ lastEvent' = [type |-> "lobby:update", payload |-> lobbyData, heard |-> Heard("lobby:update")]
    /\ UNCHANGED <<app, view, lobbyId, playerId, opens, listeners, lastGame, resolved, dismissed>>

ErrorEvent(detail) ==
    /\ view # "new"
    /\ st' = Deliver("error", detail)
    /\ opens' = [k \in 1..Len(opens) |->
                    IF Heard("error") /\ k \in listeners["error"] /\ detail = ErrAlreadyInGame
                         /\ opens[k].permAt = "never"
                    THEN [opens[k] EXCEPT !.permAt =
                             IF opens[k].timer = "pending" /\ opens[k].left = 0
                             THEN "due" ELSE opens[k].timer]
                    ELSE opens[k]]
    /\ lastEvent' = [type |-> "error", detail |-> detail, heard |-> Heard("error")]
    /\ UNCHANGED <<app, view, lobbyId, playerId, listeners, lastGame, resolved, dismissed>>

GatePreview(preview) ==
    /\ view # "new"
    /\ st' = Deliver("gate_preview", preview)
    /\ lastEvent' = [ type |-> "gate_preview", payload |-> preview,
                      heard |-> Heard("gate_preview"),
                      hadOther |-> ( /\ Heard("gate_preview")
                                     /\ st.gatePreview # null
                                     /\ st.gatePreview # preview ) ]
    /\ UNCHANGED <<app, view, lobbyId, playerId, opens, listeners, lastGame, resolved, dismissed>>

(***************************************************************************)
(* The viewer's buttons.  The table, and with it the result popup, is      *)
(* rendered only past the loading, error and waiting-room returns.         *)
(***************************************************************************)
IsWaiting ==
    /\ st.lobby # null
    /\ Has(st.lobby, "waiting_players")
    /\ playerId \in st.lobby.waiting_players

TableRendered ==
    /\ view = "open"
    /\ ~st.loading
    /\ st.error = NoError
    /\ st.gameState # null
    /\ ~IsWaiting

\* The "Cannot Join Game" view with its way back home: past the loading
\* return, instead of the waiting room and the table.
ErrorViewRendered ==
    /\ view = "open"
    /\ ~st.loading
    /\ st.error # NoError

\* The table render reads Object.values(gameState.players) (line 456): a
\* TypeError when the snapshot has no players map.
RenderThrows(g) == ~Has(g, "players")

PopupRendered ==
    /\ TableRendered
    /\ ~RenderThrows(st.gameState)
    /\ st.showWinnerPopup
    /\ st.winnerInfo # null

\* "Continue Watching": setShowWinnerPopup(false).
ContinueWatching ==
    /\ PopupRendered
    /\ st' = [st EXCEPT !.showWinnerPopup = FALSE]
    /\ dismissed' = TRUE
    /\ lastEvent' = [type |-> "dismiss"]
    /\ UNCHANGED <<app, view, lobbyId, playerId, opens, listeners, lastGame, resolved>>

(***************************************************************************)
(* BettingRoundEvaluator: isBettingRoundComplete over the held snapshot g. *)
(***************************************************************************)
\* gameState.betting_state?.players || {}
BettingViewsOf(g) ==
    IF Has(g, "betting_state") /\ Has(g.betting_state, "players")
    THEN g.betting_state.players
    ELSE NoFields

\* A filter that leaves the all-in players in.
BettingPlayersFoldedOnly(g) ==
    { id \in DOMAIN BettingViewsOf(g) : ~BettingViewsOf(g)[id].has_folded }

\* .filter(p => !p.has_folded && !p.is_all_in), as the ids of the entries kept.
BettingPlayers(g) ==
    { id \in DOMAIN BettingViewsOf(g) :
        ~BettingViewsOf(g)[id].has_folded /\ ~BettingViewsOf(g)[id].is_all_in }

\* Object.values(gameState.players) of line 284.
IsBettingRoundCompleteThrows(g) == ~Has(g, "players")

\* An early return for an empty set only.
IsBettingRoundCompleteStrict(g) ==
    IF Cardinality(BettingPlayers(g)) < 1 THEN TRUE
    ELSE \A id \in BettingPlayers(g) : BettingViewsOf(g)[id].has_acted

\* An evaluator that counts only the contesters the players map marks active.
IsBettingRoundCompleteActiveOnly(g) ==
    LET active == { id \in BettingPlayers(g) :
                      /\ id \in DOMAIN g.players
                      /\ Has(g.players[id], "is_active")
                      /\ g.players[id].is_active }
    IN IF Cardinality(active) <= 1 THEN TRUE
       ELSE \A id \in active : BettingViewsOf(g)[id].has_acted

IsBettingRoundComplete(g) ==
    IF Cardinality(BettingPlayers(g)) <= 1 THEN TRUE
    ELSE \A id \in BettingPlayers(g) : BettingViewsOf(g)[id].has_acted

\* The render of the table: lastEvent records whether it threw, when the
\* phase is not complete (line 789) what isBettingRoundComplete() said, and
\* the rows of the transformation history it shows.
RenderedBetting(g) ==
    IF RenderThrows(g) \/ g.phase = "complete" THEN "none"
    ELSE IF IsBettingRoundCompleteThrows(g) THEN "threw"
    ELSE IF IsBettingRoundComplete(g) THEN "complete"
    ELSE "waiting"

\* "Your Card Transformations": cardHistory[playerId].map(...), one row per
\* record with its original card, gate and result card.
RenderedHistory(g, hist) ==
    IF RenderThrows(g) THEN <<>>
    ELSE [ i \in 1..Len(hist) |->
             [ original |-> hist[i].originalCard,
               gate |-> hist[i].gate,
               result |-> hist[i].resultCard ] ]

Render ==
    /\ TableRendered
    /\ lastEvent' = [ type |-> "render",
                      threw |-> RenderThrows(st.gameState),
                      betting |-> RenderedBetting(st.gameState),
                      history |-> RenderedHistory(st.gameState, st.cardHistory[playerId]) ]
    /\ UNCHANGED <<app, view, lobbyId, playerId, st, opens, listeners,
                   lastGame, resolved, dismissed>>

(***************************************************************************)
(* AuthProvider (lines 13-78).  localStorage is a map from the keys present *)
(* to strings; a user object is stored as its JSON text.                   *)
(***************************************************************************)
undefined == [undefined |-> TRUE]

UserIds == { "u" \o ToString(i) : i \in 1..MaxUsers }
Users == { [id |-> u] : u \in UserIds }

\* JSON.stringify(userData), as the string localStorage.setItem stores.
Stringify(u) ==
    IF u = undefined THEN "undefined"
    ELSE IF u = null THEN "null"
    ELSE "{\"id\":\"" \o u.id \o "\"}"

\* JSON.parse(text): a SyntaxError for a text that is no JSON value.
ParseThrows(text) == text \notin { Stringify(u) : u \in Users \cup {null} }

Parse(text) == CHOOSE u \in Users \cup {null} : Stringify(u) = text

\* localStorage.getItem(key) is a non-empty string.
StoredTruthy(store, key) == Has(store, key) /\ store[key] # ""

SetItem(store, key, value) == (key :> value) @@ store

RemoveItem(store, key) == [k \in DOMAIN store \ {key} |-> store[k]]

\* A load effect whose catch forgets the stored token.
LoadClearedUserOnly(store) ==
    RemoveItem(store, "user")

\* The catch block of the load effect (lines 30-31).
LoadCleared(store) ==
    RemoveItem(RemoveItem(store, "access_token"), "user")

\* The mount effect of lines 18-36.
AuthLoad ==
    /\ auth.loading
    /\ IF StoredTruthy(storage, "access_token") /\ StoredTruthy(storage, "user")
       THEN IF ParseThrows(storage.user)
            THEN /\ storage' = LoadCleared(storage)
                 /\ auth' = [auth EXCEPT !.loading = FALSE]
            ELSE /\ storage' = storage
                 /\ auth' = [ user |-> Parse(storage.user),
                              token |-> storage.access_token,
                              loading |-> FALSE ]
       ELSE /\ storage' = storage
            /\ auth' = [auth EXCEPT !.loading = FALSE]
    /\ lastEvent' = [ type |-> "auth:load",
                      caught |-> ( /\ StoredTruthy(storage, "access_token")
                                   /\ StoredTruthy(storage, "user")
                                   /\ ParseThrows(storage.user) ) ]
    /\ UNCHANGED <<page, lobbies>>

\* tokenData.access_token as a string: 'undefined' when the field is absent.
AccessToken(tokenData) ==
    IF Has(tokenData, "access_token") THEN tokenData.access_token ELSE "undefined"

\* login(tokenData, userData), lines 38-43.
Login(tokenData, userData) ==
    /\ ~auth.loading
    /\ storage' = SetItem(SetItem(storage, "access_token", AccessToken(tokenData)),
                          "user", Stringify(userData))
    /\ auth' = [auth EXCEPT !.token = IF Has(tokenData, "access_token")
                                      THEN tokenData.access_token ELSE NoToken,
                            !.user = userData]
    /\ lastEvent' = [type |-> "auth:login", tokenData |-> tokenData, userData |-> userData]
    /\ UNCHANGED <<page, lobbies>>

\* logout(), lines 45-50.
Logout ==
    /\ ~auth.loading
    /\ storage' = RemoveItem(RemoveItem(storage, "access_token"), "user")
    /\ auth' = [auth EXCEPT !.token = NoToken, !.user = null]
    /\ lastEvent' = [type |-> "auth:logout"]
    /\ UNCHANGED <<page, lobbies>>

\* isAuthenticated(), lines 52-54.
IsAuthenticated ==
    /\ auth.token \notin {NoToken, ""}
    /\ auth.user \notin {null, undefined}

(***************************************************************************)
(* SpecAuth: the AuthProvider started on any content of localStorage, then *)
(* logins and logouts.                                                     *)
(***************************************************************************)
StoredTokens == {"", "tok1", "tok2"}
StoredUserTexts == { Stringify(u) : u \in Users \cup {null, undefined} } \cup {"", "{oops"}

\* What another part of the site may keep in localStorage.
OtherItems == { NoFields, "theme" :> "dark" }

StoredSessions ==
    { s @@ o : s \in { NoFields }
                    \cup { "access_token" :> t : t \in StoredTokens }
                    \cup { "user" :> x : x \in StoredUserTexts }
                    \cup { ("access_token" :> t) @@ ("user" :> x)
                             : t \in StoredTokens, x \in StoredUserTexts },
               o \in OtherItems }

TokenData == { [access_token |-> "tok1"], [access_token |-> "tok2"], NoFields }
LoginUsers == Users \cup {undefined}

InitAuth ==
    /\ view = "new"
    /\ lobbyId = NoParam
    /\ playerId = NoParam
    /\ st = InitialState
    /\ opens = <<>>
    /\ listeners = [e \in EventNames |-> {}]
    /\ lastEvent = [type |-> "init"]
    /\ lastGame = NoPayload
    /\ resolved = FALSE
    /\ dismissed = FALSE
    /\ auth = AuthInitial
    /\ storage \in StoredSessions
    /\ lobbies = <<>>

NextAuth ==
    \/ AuthLoad
    \/ \E t \in TokenData, u \in LoginUsers : Login(t, u)
    \/ Logout

SpecAuth == InitAuth /\ [][NextAuth]_vars

(***************************************************************************)
(* The home page (HomePage.jsx): the lobby list, replaced by every         *)
(* loadLobbies() and updated by the lobby:update listener.                 *)
(***************************************************************************)
HomeLobbyIds == { "L" \o ToString(i) : i \in 1..MaxLobbies }

\* A lobby as the server sends it: its id and whether its game is running.
HomeLobbies == [lobby_id : HomeLobbyIds, in_game : BOOLEAN]

DistinctIds(list) ==
    \A i, j \in 1..Len(list) : i # j => list[i].lobby_id # list[j].lobby_id

\* What api.listLobbies() resolves to: one entry per lobby of the server.
ListedLobbies ==
    { list \in UNION { [1..n -> HomeLobbies] : n \in 0..MaxLobbies } : DistinctIds(list) }

\* An updater that appends whatever arrives.
OnHomeLobbyUpdateAppend(prev, lobby) == Append(prev, lobby)

\* The updater of lines 19-25: prev.find, then map or append.
OnHomeLobbyUpdate(prev, lobby) ==
    LET exists == \E i \in 1..Len(prev) : prev[i].lobby_id = lobby.lobby_id
    IN IF exists
       THEN [i \in 1..Len(prev) |->
                IF prev[i].lobby_id = lobby.lobby_id THEN lobby ELSE prev[i]]
       ELSE Append(prev, lobby)

\* loadLobbies(), lines 44-51, also run by the cleanup interval (29-36).
LoadLobbies(data) ==
    /\ lobbies' = data
    /\ lastEvent' = [type |-> "home:load"]
    /\ UNCHANGED <<page, auth, storage>>

\* The lobby:update listener of the home page, lines 18-26.
HomeLobbyUpdate(lobby) ==
    /\ Len(OnHomeLobbyUpdate(lobbies, lobby)) <= MaxLobbies
    /\ lobbies' = OnHomeLobbyUpdate(lobbies, lobby)
    /\ lastEvent' = [type |-> "home:lobby:update", lobby |-> lobby]
    /\ UNCHANGED <<page, auth, storage>>

(***************************************************************************)
(* SpecHome: the mounted home page, its list loaded and reloaded from the  *)
(* server and updated by lobby events.                                     *)
(***************************************************************************)
NextHome ==
    \/ \E data \in ListedLobbies : LoadLobbies(data)
    \/ \E lobby \in HomeLobbies : HomeLobbyUpdate(lobby)

SpecHome == Init /\ [][NextHome]_vars

(***************************************************************************)
(* Spec: the session of the table view: open, retry timer, view change and *)
(* close, with the four channel events its listeners hear.                 *)
(***************************************************************************)
Next ==
    \/ \E lid \in LobbyIds, pid \in ViewerIds : Mount(lid, pid)
    \/ \E lid \in LobbyIds, pid \in ViewerIds : ChangeView(lid, pid)
    \/ Unmount
    \/ Tick
    \/ \E k \in 1..Len(opens) : RetryTimer(k)
    \/ \E p \in SessionPayloads : GameUpdate(p)
    \/ \E l \in SessionLobbies : LobbyUpdate(l)
    \/ \E d \in SessionErrors : ErrorEvent(d)
    \/ \E v \in SessionPreviews : GatePreview(v)

Spec == Init /\ [][Next]_vars

(***************************************************************************)
(* SpecLoad: the asynchronous initial load of each open, interleaved with  *)
(* view changes and with the snapshots the channel delivers.               *)
(***************************************************************************)
LoadedSnapshots == {null, [phase |-> "flop", players |-> PlayersNoViewer]}

NextLoad ==
    \/ \E lid \in LobbyIds, pid \in ViewerIds : Mount(lid, pid)
    \/ \E lid \in LobbyIds, pid \in ViewerIds : ChangeView(lid, pid)
    \/ Unmount
    \/ \E k \in 1..Len(opens), g \in LoadedSnapshots, ok \in BOOLEAN :
          LoadGameData(k, g, ok, FALSE)
    \/ \E p \in SessionPayloads : GameUpdate(p)
    \/ \E l \in SessionLobbies : LobbyUpdate(l)

SpecLoad == Init /\ [][NextLoad]_vars

(***************************************************************************)
(* SpecOutcome: one open table, the game updates that carry every shape of *)
(* result payload, and the viewer dismissing the result popup.             *)
(***************************************************************************)
NextOutcome ==
    \/ Mount("A", "p1")
    \/ LoadGameData(1, null, TRUE, TRUE)
    \/ \E p \in OutcomePayloads : GameUpdate(p)
    \/ \E v \in SessionPreviews : GatePreview(v)
    \/ ContinueWatching
    \/ Render

SpecOutcome == Init /\ [][NextOutcome]_vars

(***************************************************************************)
(* SpecLedger: one open table and the game updates that carry gate events. *)
(***************************************************************************)
NextLedger ==
    \/ Mount("A", "p1")
    \/ \E p \in LedgerPayloads : GameUpdate(p)
    \/ \E v \in SessionPreviews : GatePreview(v)

SpecLedger == Init /\ [][NextLedger]_vars

(***************************************************************************)
(* SpecBetting: a table whose initial load brought a snapshot with any     *)
(* betting state over MaxBettors players, and the render that evaluates    *)
(* isBettingRoundComplete on it.                                           *)
(***************************************************************************)
BettorIds == { "p" \o ToString(i) : i \in 1..MaxBettors }

BettingViews == [has_folded : BOOLEAN, is_all_in : BOOLEAN, has_acted : BOOLEAN]

BettingMaps == UNION { [D -> BettingViews] : D \in SUBSET BettorIds }

\* The players map of a snapshot with the is_active flags line 284 reads.
ActivePlayerMaps ==
    { [p1 |-> [is_active |-> a], p2 |-> [is_active |-> b]] : a, b \in BOOLEAN }

BettingSnapshots ==
    { [phase |-> "flop", players |-> m, betting_state |-> [players |-> b]]
        : m \in ActivePlayerMaps \cup {PlayersNamed}, b \in BettingMaps }
    \cup { [phase |-> "flop", players |-> m] : m \in ActivePlayerMaps }
    \cup { [phase |-> "flop", players |-> PlayersNamed],
           [phase |-> "flop", players |-> PlayersNamed, betting_state |-> NoFields],
           [phase |-> "flop"] }

InitBetting ==
    /\ view = "open"
    /\ lobbyId = "A"
    /\ playerId = "p1"
    /\ \E g \in BettingSnapshots :
           /\ st = LoadResult(InitialState, NewOpen("A", "p1", NoError), g, TRUE, TRUE)
           /\ lastEvent = [type |-> "load", open |-> 1,
                           gameData |-> g, lobbyOk |-> TRUE]
    /\ opens = << [NewOpen("A", "p1", NoError) EXCEPT !.load = "done"] >>
    /\ listeners = Subscribe([e \in EventNames |-> {}], 1)
    /\ lastGame = NoPayload
    /\ resolved = FALSE
    /\ dismissed = FALSE
    /\ auth = AuthInitial
    /\ storage = NoFields
    /\ lobbies = <<>>

NextBetting == Render

SpecBetting == InitBetting /\ [][NextBetting]_vars

(***************************************************************************)
(* SpecScenarioA: one open table in the environment of Scenario A: the     *)
(* only errors are 'Lobby not found', and a game update arrives only right *)
(* after such an error was heard, while the retry timer is still running.  *)
(* Lobby updates, previews, time and the close are free.                   *)
(***************************************************************************)
NextScenarioA ==
    \/ \E lid \in LobbyIds, pid \in ViewerIds : Mount(lid, pid)
    \/ Unmount
    \/ Tick
    \/ \E k \in 1..Len(opens) : RetryTimer(k)
    \/ ErrorEvent(ErrLobbyNotFound)
    \/ /\ lastEvent.type = "error" /\ lastEvent.heard
       /\ opens[Cur].timer = "pending"
       /\ opens[Cur].left > 0
       /\ \E p \in SessionPayloads : GameUpdate(p)
    \/ \E l \in SessionLobbies : LobbyUpdate(l)
    \/ \E v \in SessionPreviews : GatePreview(v)

SpecScenarioA == Init /\ [][NextScenarioA]_vars

(***************************************************************************)
(* SpecHistory: one open table, loaded, the gate events of three gates in  *)
(* both phases, and the render that reads the viewer's history.            *)
(***************************************************************************)
GateOther == [gate |-> "Z", original_card |-> "7C", result_card |-> "7C"]

HistoryPayloads ==
    { [state |-> [phase |-> ph, players |-> PlayersNamed],
       result |-> [gate_applied |-> TRUE, gate_info |-> g]]
        : ph \in Phases, g \in {GateFull, GatePartial, GateOther} }

NextHistory ==
    \/ Mount("A", "p1")
    \/ LoadGameData(1, null, TRUE, TRUE)
    \/ \E p \in HistoryPayloads : GameUpdate(p)
    \/ Render

SpecHistory == Init /\ [][NextHistory]_vars

(***************************************************************************)
(* SpecFatal: one open table with its initial load, and every event of the *)
(* channel, the three kinds of error included.                             *)
(***************************************************************************)
NextFatal ==
    \/ \E lid \in LobbyIds, pid \in ViewerIds : Mount(lid, pid)
    \/ Unmount
    \/ \E k \in 1..Len(opens), g \in LoadedSnapshots, ok \in BOOLEAN :
          LoadGameData(k, g, ok, FALSE)
    \/ \E p \in SessionPayloads : GameUpdate(p)
    \/ \E l \in SessionLobbies : LobbyUpdate(l)
    \/ \E d \in SessionErrors : ErrorEvent(d)
    \/ \E v \in Previews : GatePreview(v)

SpecFatal == Init /\ [][NextFatal]_vars

(***************************************************************************)
(* SpecViewers: one table whose route parameter :playerId moves between    *)
(* two ids while the page stays mounted, and gate events in one phase.     *)
(***************************************************************************)
RouteViewerIds == {"p1", "p2"}

GatePayloads ==
    { p \in LedgerPayloads :
        /\ p.state.phase = "flop"
        /\ Has(p, "result") => p.result \in GateParts }

NextViewers ==
    \/ \E pid \in RouteViewerIds : Mount("A", pid)
    \/ \E pid \in RouteViewerIds : ChangeView("A", pid)
    \/ \E p \in GatePayloads : GameUpdate(p)

SpecViewers == Init /\ [][NextViewers]_vars

(***************************************************************************)
(* Properties.                                                             *)
(***************************************************************************)
HeardEvent(e, type) == e.type = type /\ e.heard

\* C1: an open that stays open and observes no permanent error before its
\* retry timer expires has emitted one join while the timer is pending and
\* exactly two once it has expired, the second not before 1000ms.
C1_RetryOnce ==
    \A k \in 1..Len(opens) :
        opens[k].permAt \notin {"pending", "due"} =>
            /\ opens[k].timer = "pending" => Len(opens[k].joins) = 1
            /\ opens[k].timer = "fired" =>
                   /\ Len(opens[k].joins) = 2
                   /\ opens[k].joins[2].at >= RetryDelayMs

\* C2: an open that hears 'Lobby already in game' while its retry timer is
\* pending never emits a second join.
C2_PermanentCancelsRetry ==
    \A k \in 1..Len(opens) :
        opens[k].permAt = "pending" => Len(opens[k].joins) = 1

\* C3: an error event with detail 'Lobby not found' leaves the held state,
\* the error state included, as it was, and leaves every open's retry timer
\* and captured retry condition as they were.
C3_TransientErrorIgnored ==
    [][ (lastEvent'.type = "error" /\ lastEvent'.detail = ErrLobbyNotFound)
            => (st' = st /\ opens' = opens /\ listeners' = listeners) ]_vars

C3_Witness ==
    /\ HeardEvent(lastEvent, "error")
    /\ lastEvent.detail = ErrLobbyNotFound
    /\ opens[Cur].timer = "pending"
    /\ st.error = NoError

\* C4: once an open is closed its retry timer is not pending and none of
\* the four listeners it registered is attached; no join is emitted for it
\* any more; and no event changes the state of a view that is closed.
C4_ClosedInv ==
    \A k \in 1..Len(opens) :
        opens[k].closed =>
            /\ opens[k].timer # "pending"
            /\ \A e \in EventNames : k \notin listeners[e]

C4_ClosedStep ==
    /\ \A k \in 1..Len(opens) :
           opens[k].closed => opens'[k].joins = opens[k].joins
    /\ view = "closed" => st' = st

C4_CloseTearsDown == []C4_ClosedInv /\ [][C4_ClosedStep]_vars

C4_Witness ==
    /\ view = "closed"
    /\ opens[Cur].timer = "cleared"
    /\ lastEvent.type \in EventNames

\* C5: no two records stored for the same player have the same
\* (original card, result card, gate, phase).
C5_LedgerUnique ==
    \A pid \in DOMAIN st.cardHistory :
        \A i, j \in 1..Len(st.cardHistory[pid]) :
            i # j =>
                LET a == st.cardHistory[pid][i]
                    b == st.cardHistory[pid][j]
                IN <<a.originalCard, a.resultCard, a.gate, a.phase>>
                       # <<b.originalCard, b.resultCard, b.gate, b.phase>>

\* C6: a game update that is the very update delivered in the step before
\* leaves the held snapshot, preview, outcome and ledger as they were.
C6_IdempotentDelivery ==
    [][ ( /\ HeardEvent(lastEvent, "game:update")
          /\ lastEvent'.type = "game:update"
          /\ lastEvent'.heard
          /\ lastEvent'.payload = lastEvent.payload )
            => ( /\ st'.gameState = st.gameState
                 /\ st'.gatePreview = st.gatePreview
                 /\ st'.winnerInfo = st.winnerInfo
                 /\ st'.cardHistory = st.cardHistory ) ]_vars

\* C7: once an outcome has been produced for the completed game and the
\* viewer has dismissed the popup, a further complete-phase delivery
\* produces no outcome and does not show the popup again.
C7_ResolvedOnce ==
    [][ ( /\ resolved /\ dismissed
          /\ lastEvent'.type = "game:update"
          /\ lastEvent'.heard
          /\ lastEvent'.payload.state.phase = "complete" )
            => ( st'.winnerInfo = st.winnerInfo /\ ~st'.showWinnerPopup ) ]_vars

\* C8: from the first game update an open hears, the held snapshot is the
\* state of the game update heard last.
C8_HeldIsLastDelivered ==
    (view = "open" /\ lastGame # NoPayload) => st.gameState = lastGame.state

\* C9: on a view change the previous open is closed before the next one
\* joins, and afterwards nothing that originates from a closed open emits
\* a join for it or changes the held state.
C9_PreviousClosed ==
    \A k \in 1..Len(opens) :
        k < Len(opens) =>
            /\ opens[k].closed
            /\ opens[k].timer # "pending"
            /\ \A e \in EventNames : k \notin listeners[e]

C9_ClosedOpenIsSilent ==
    /\ \A k \in 1..Len(opens) :
           opens[k].closed => opens'[k].joins = opens[k].joins
    /\ ( /\ lastEvent'.type \in {"timer", "load"}
         /\ opens[lastEvent'.open].closed
         /\ view = "open" )
           => st' = st

C9_NoCrossTalk == []C9_PreviousClosed /\ [][C9_ClosedOpenIsSilent]_vars

\* C10: a complete-phase game update produces at most one outcome; with
\* the auto_win flag and a winner identifier it is the auto-win outcome,
\* winners list or not, and the winners-list outcome is produced only
\* when the auto-win condition does not hold.
C10_AutoWinFlagged(p) ==
    /\ Has(p, "result")
    /\ Has(p.result, "auto_win") /\ p.result.auto_win = TRUE
    /\ Has(p.result, "winner") /\ p.result.winner # ""

C10_OutcomePriority ==
    [][ ( /\ lastEvent'.type = "game:update"
          /\ lastEvent'.heard
          /\ lastEvent'.payload.state.phase = "complete" )
            => LET p == lastEvent'.payload
                   produced == st'.winnerInfo # st.winnerInfo
               IN /\ (C10_AutoWinFlagged(p) /\ Has(p.state, "players"))
                        => ( /\ st'.winnerInfo # null
                             /\ st'.winnerInfo.isAutoWin
                             /\ st'.showWinnerPopup )
                  /\ (C10_AutoWinFlagged(p) /\ produced)
                        => st'.winnerInfo.isAutoWin
                  /\ (~C10_AutoWinFlagged(p) /\ produced)
                        => ( /\ ~st'.winnerInfo.isAutoWin
                             /\ Has(p.result, "winners") ) ]_vars

C10_Witness ==
    /\ HeardEvent(lastEvent, "game:update")
    /\ lastEvent.payload.state.phase = "complete"
    /\ Has(lastEvent.payload, "result")
    /\ C10_AutoWinFlagged(lastEvent.payload)
    /\ Has(lastEvent.payload.result, "winners")
    /\ st.winnerInfo # null
    /\ st.winnerInfo.isAutoWin

\* The step just taken is a complete-phase game update that was heard.
CompleteUpdateStep ==
    /\ lastEvent'.type = "game:update"
    /\ lastEvent'.heard
    /\ lastEvent'.payload.state.phase = "complete"

\* The variants of OutcomeDescription an outcome record belongs to.
Variants(info) ==
    { v \in {"AutoWin", "TieSplit", "ShowdownWin"} :
        \/ v = "AutoWin" /\ info.isAutoWin
        \/ v = "TieSplit" /\ info.isTie
        \/ v = "ShowdownWin" /\ ~info.isAutoWin /\ ~info.isTie }

HasWinners(p) == Has(p, "result") /\ Has(p.result, "winners")

NonEmptyWinners(p) == HasWinners(p) /\ Len(p.result.winners) > 0

\* C11 as claimed: a complete-phase game update with a result payload
\* produces exactly one outcome, never zero and never more than one.
C11_ExactlyOne ==
    [][ (CompleteUpdateStep /\ Has(lastEvent'.payload, "result"))
            => ( /\ st'.winnerInfo # null
                 /\ st'.showWinnerPopup
                 /\ Cardinality(Variants(st'.winnerInfo)) = 1 ) ]_vars

\* C11 as amended: such an update produces at most one outcome: one, of a
\* single variant, when the result signals an auto-win or carries a
\* non-empty winners list and the snapshot has its players map; none when
\* the result has neither an auto-win nor a winners list.
C11_AtMostOne ==
    [][ (CompleteUpdateStep /\ Has(lastEvent'.payload, "result"))
            => LET p == lastEvent'.payload
               IN /\ ((C10_AutoWinFlagged(p) \/ NonEmptyWinners(p)) /\ Has(p.state, "players"))
                        => ( /\ st'.winnerInfo # null
                             /\ st'.showWinnerPopup
                             /\ st'.winnerInfo.isAutoWin = C10_AutoWinFlagged(p) )
                  /\ (~C10_AutoWinFlagged(p) /\ ~HasWinners(p))
                        => ( /\ st'.winnerInfo = st.winnerInfo
                             /\ st'.showWinnerPopup = st.showWinnerPopup )
                  /\ st'.winnerInfo # null
                        => Cardinality(Variants(st'.winnerInfo)) = 1 ]_vars

C11_Witness ==
    /\ HeardEvent(lastEvent, "game:update")
    /\ lastEvent.payload.state.phase = "complete"
    /\ Has(lastEvent.payload, "result")
    /\ ~C10_AutoWinFlagged(lastEvent.payload)
    /\ ~HasWinners(lastEvent.payload)
    /\ st.winnerInfo = null
    /\ ~st.showWinnerPopup

\* C12: a complete-phase update with no result, an unrecognized one, or an
\* empty winners list and no auto-win produces no outcome, shows no popup,
\* is applied (snapshot replaced, preview cleared) and raises no error.
C12_NoOutcomeNoError ==
    [][ ( /\ CompleteUpdateStep
          /\ ~C10_AutoWinFlagged(lastEvent'.payload)
          /\ ~NonEmptyWinners(lastEvent'.payload) )
            => ( /\ st'.winnerInfo = st.winnerInfo
                 /\ st'.showWinnerPopup = st.showWinnerPopup
                 /\ st'.gameState = lastEvent'.payload.state
                 /\ st'.gatePreview = null
                 /\ ~lastEvent'.threw ) ]_vars

\* C13: for a complete-phase snapshot (with its players map) whose result
\* carries a non-empty winners list and no auto-win, isTie holds iff the
\* list has more than one entry, isCurrentPlayer iff the viewer's id is at
\* some position of the list, and the headline winnings and description
\* are those of the first entry.
C13_ShowdownFields ==
    [][ ( /\ CompleteUpdateStep
          /\ ~C10_AutoWinFlagged(lastEvent'.payload)
          /\ NonEmptyWinners(lastEvent'.payload)
          /\ Has(lastEvent'.payload.state, "players") )
            => LET w == lastEvent'.payload.result.winners
               IN /\ st'.winnerInfo # null
                  /\ st'.winnerInfo.isTie = (Len(w) > 1)
                  /\ st'.winnerInfo.isCurrentPlayer
                        = (\E i \in 1..Len(w) : w[i].player_id = playerId)
                  /\ st'.winnerInfo.winnings = w[1].winnings
                  /\ st'.winnerInfo.handDescription = w[1].description ]_vars

C13_Witness ==
    /\ HeardEvent(lastEvent, "game:update")
    /\ lastEvent.payload.state.phase = "complete"
    /\ HasWinners(lastEvent.payload)
    /\ lastEvent.payload.result.winners = <<WinP2a, WinP1b>>
    /\ playerId = "p1"
    /\ st.winnerInfo # null
    /\ st.winnerInfo.isCurrentPlayer
    /\ st.winnerInfo.isTie
    /\ st.winnerInfo.winnings = 60

\* The name the snapshot holds for a player, if it holds one.
HasName(players, id) ==
    id \in DOMAIN players /\ Has(players[id], "name") /\ players[id].name # ""

AutoWinStep ==
    /\ CompleteUpdateStep
    /\ C10_AutoWinFlagged(lastEvent'.payload)
    /\ Has(lastEvent'.payload.state, "players")

\* C14 as claimed: the auto-win display name is the identified player's
\* name, or the raw winner identifier when the record or its name is
\* missing.
C14_NameOrRawId ==
    [][ AutoWinStep
            => LET p == lastEvent'.payload
               IN st'.winnerInfo.playerName
                    = IF HasName(p.state.players, p.result.winner)
                      THEN p.state.players[p.result.winner].name
                      ELSE p.result.winner ]_vars

\* C14 as amended: the auto-win display name is the identified player's
\* name, or 'Player ' followed by the winner identifier when the record or
\* its name is missing.
C14_NameOrPlayerId ==
    [][ AutoWinStep
            => LET p == lastEvent'.payload
               IN /\ st'.winnerInfo.playerName
                       = IF HasName(p.state.players, p.result.winner)
                         THEN p.state.players[p.result.winner].name
                         ELSE "Player " \o p.result.winner
                  /\ st'.winnerInfo.allWinners[1].name = st'.winnerInfo.playerName ]_vars

C14_Witness ==
    /\ HeardEvent(lastEvent, "game:update")
    /\ lastEvent.payload.state.phase = "complete"
    /\ C10_AutoWinFlagged(lastEvent.payload)
    /\ lastEvent.payload.result.winner = "p2"
    /\ lastEvent.payload.state = [phase |-> "complete", players |-> PlayersNamed]
    /\ st.winnerInfo # null
    /\ st.winnerInfo.playerName = "Player p2"

\* C15: after every game update that is heard the held snapshot is the
\* delivered state, whatever was held before.
C15_SnapshotReplaced ==
    [][ (lastEvent'.type = "game:update" /\ lastEvent'.heard)
            => st'.gameState = lastEvent'.payload.state ]_vars

C15_Witness ==
    /\ HeardEvent(lastEvent, "game:update")
    /\ lastEvent.replaced
    /\ ~Has(lastEvent.payload.state, "players")
    /\ st.gameState = lastEvent.payload.state

\* C16: after every game update that is heard the held preview is empty.
C16_PreviewCleared ==
    [][ (lastEvent'.type = "game:update" /\ lastEvent'.heard)
            => st'.gatePreview = null ]_vars

C16_Witness ==
    /\ HeardEvent(lastEvent, "game:update")
    /\ lastEvent.hadPreview
    /\ st.gatePreview = null

\* C17: a lobby update for the view's own lobby id replaces the held lobby
\* snapshot and nothing else; one for another table changes nothing held.
C17_LobbyFilter ==
    [][ (lastEvent'.type = "lobby:update" /\ lastEvent'.heard)
            => LET l == lastEvent'.payload
               IN IF l.lobby_id = lobbyId
                  THEN st' = [st EXCEPT !.lobby = l]
                  ELSE st' = st ]_vars

C17_Witness ==
    /\ HeardEvent(lastEvent, "lobby:update")
    /\ lastEvent.payload.lobby_id # lobbyId
    /\ st.lobby # null
    /\ st.lobby.lobby_id = lobbyId
    /\ st.lobby # lastEvent.payload

\* C18: a game update with missing optional fields (an empty winners list,
\* the case of C12, set aside) never raises, is applied with the preview
\* cleared, and the render and the betting evaluator work on what is held.
C18_Applied ==
    ( /\ lastEvent'.type = "game:update"
      /\ lastEvent'.heard
      /\ ~(HasWinners(lastEvent'.payload) /\ ~NonEmptyWinners(lastEvent'.payload)) )
        => ( /\ ~lastEvent'.threw
             /\ st'.gameState = lastEvent'.payload.state
             /\ st'.gatePreview = null )

C18_Rendered ==
    lastEvent.type = "render" => (~lastEvent.threw /\ lastEvent.betting # "threw")

C18_NoErrorConditions == [][C18_Applied]_vars /\ []C18_Rendered

\* The players of the held snapshot's betting state still contesting the
\* pot: neither folded nor all-in.
Contesting ==
    LET g == st.gameState
    IN IF Has(g, "betting_state") /\ Has(g.betting_state, "players")
       THEN { id \in DOMAIN g.betting_state.players :
                /\ g.betting_state.players[id].has_folded = FALSE
                /\ g.betting_state.players[id].is_all_in = FALSE }
       ELSE {}

EvaluatorRan == lastEvent.type = "render" /\ lastEvent.betting \in {"complete", "waiting"}

\* C19: with at most one player contesting, the evaluator returns complete,
\* whatever the has_acted flags are.
C19_FewContestersComplete ==
    (EvaluatorRan /\ Cardinality(Contesting) <= 1) => lastEvent.betting = "complete"

C19_Witness ==
    /\ EvaluatorRan
    /\ Cardinality(Contesting) = 1
    /\ \E id \in Contesting : ~st.gameState.betting_state.players[id].has_acted
    /\ lastEvent.betting = "complete"

\* C20: with two or more players contesting, the evaluator returns complete
\* iff every contesting player has acted; the flags of folded and all-in
\* players do not count.
C20_AllContestersActed ==
    (EvaluatorRan /\ Cardinality(Contesting) >= 2)
        => ( lastEvent.betting = "complete"
               <=> \A id \in Contesting : st.gameState.betting_state.players[id].has_acted )

C20_Witness ==
    /\ EvaluatorRan
    /\ Cardinality(Contesting) >= 2
    /\ \E id \in DOMAIN st.gameState.betting_state.players :
           /\ id \notin Contesting
           /\ ~st.gameState.betting_state.players[id].has_acted
    /\ lastEvent.betting = "complete"

\* The open of Scenario A has heard its game update: in SpecScenarioA the
\* held snapshot is set by nothing else.
ScenarioADone == Len(opens) = 1 /\ st.gameState # null

\* C21 as claimed: in Scenario A no error is surfaced, and once the game
\* update has arrived the open emits no further join.
C21_GameUpdateSupersedesRetry ==
    ScenarioADone => (st.error = NoError /\ Len(opens[1].joins) = 1)

\* C21 as amended: in Scenario A no error is surfaced, and the game update
\* leaves the retry timer and the joins emitted as they were: the open has
\* one join while its timer runs and a second one, emitted at expiry, once
\* the timer has run.
C21_Step ==
    lastEvent'.type = "game:update"
        => /\ st'.error = st.error
           /\ \A k \in 1..Len(opens) :
                  /\ opens'[k].timer = opens[k].timer
                  /\ opens'[k].left = opens[k].left
                  /\ opens'[k].joins = opens[k].joins

C21_ScenarioJoins ==
    ScenarioADone =>
        /\ st.error = NoError
        /\ opens[1].timer \in {"pending", "cleared"} => Len(opens[1].joins) = 1
        /\ opens[1].timer = "fired" =>
               /\ Len(opens[1].joins) = 2
               /\ opens[1].joins[2].at >= RetryDelayMs

C21_RetryStillEmitted == [][C21_Step]_vars /\ []C21_ScenarioJoins

C21_Witness ==
    /\ ScenarioADone
    /\ view = "open"
    /\ opens[1].timer = "fired"
    /\ Len(opens[1].joins) = 2
    /\ st.error = NoError

\* C22: a heard 'Lobby already in game' puts the view into the fatal error
\* state; while the view stays open no game update, lobby update, preview
\* or 'Lobby not found' error changes the held error, no step at all
\* empties it, and the table is not rendered while it is held.
C22_Step ==
    /\ ( /\ lastEvent'.type = "error" /\ lastEvent'.heard
         /\ lastEvent'.detail = ErrAlreadyInGame )
          => st'.error = MsgAlreadyStarted
    /\ ( /\ st.error = MsgAlreadyStarted
         /\ \/ lastEvent'.type \in {"game:update", "lobby:update", "gate_preview"}
            \/ lastEvent'.type = "error" /\ lastEvent'.detail = ErrLobbyNotFound )
          => st'.error = MsgAlreadyStarted
    /\ st.error # NoError => st'.error # NoError

C22_FatalView == st.error = MsgAlreadyStarted => ~TableRendered

C22_PermanentIsSticky == [][C22_Step]_vars /\ []C22_FatalView

C22_Witness ==
    /\ ErrorViewRendered
    /\ st.error = MsgAlreadyStarted
    /\ st.gameState # null
    /\ HeardEvent(lastEvent, "game:update")

IsPrefix(a, b) == Len(a) <= Len(b) /\ SubSeq(b, 1, Len(a)) = a

\* C23: in every step each player's history stays a prefix of what it
\* becomes (records are only added, at the end, and never removed, moved or
\* changed), and the render reads the viewer's records in that order.
C23_Step ==
    \A pid \in DOMAIN st.cardHistory :
        /\ IsPrefix(st.cardHistory[pid], st'.cardHistory[pid])
        /\ Len(st'.cardHistory[pid]) <= Len(st.cardHistory[pid]) + 1

C23_Read ==
    (lastEvent.type = "render" /\ ~lastEvent.threw)
        => /\ Len(lastEvent.history) = Len(st.cardHistory[playerId])
           /\ \A i \in 1..Len(lastEvent.history) :
                  /\ lastEvent.history[i].original = st.cardHistory[playerId][i].originalCard
                  /\ lastEvent.history[i].gate = st.cardHistory[playerId][i].gate
                  /\ lastEvent.history[i].result = st.cardHistory[playerId][i].resultCard

C23_AppendOnly == [][C23_Step]_vars /\ []C23_Read

C23_Witness ==
    /\ lastEvent.type = "render"
    /\ ~lastEvent.threw
    /\ Len(st.cardHistory["p1"]) = 2
    /\ st.cardHistory["p1"][1].gate = "Z"
    /\ st.cardHistory["p1"][2].gate = "X"
    /\ lastEvent.history[1].gate = "Z"

C25_WinnersKept ==
    [][ ( /\ CompleteUpdateStep
          /\ ~C10_AutoWinFlagged(lastEvent'.payload)
          /\ NonEmptyWinners(lastEvent'.payload)
          /\ Has(lastEvent'.payload.state, "players") )
            => LET w == lastEvent'.payload.result.winners
                   all == st'.winnerInfo.allWinners
               IN /\ Len(all) = Len(w)
                  /\ \A i \in 1..Len(w) :
                        /\ all[i].description = w[i].description
                        /\ all[i].winnings = w[i].winnings
                        /\ HasName(lastEvent'.payload.state.players, w[i].player_id)
                              => all[i].name
                                   = lastEvent'.payload.state.players[w[i].player_id].name ]_vars

C25_Witness ==
    /\ HeardEvent(lastEvent, "game:update")
    /\ lastEvent.payload.state = [phase |-> "complete", players |-> PlayersNamed]
    /\ HasWinners(lastEvent.payload)
    /\ lastEvent.payload.result.winners = <<WinP2a, WinP1b>>
    /\ st.winnerInfo # null
    /\ Len(st.winnerInfo.allWinners) = 2
    /\ st.winnerInfo.allWinners[1].winnings = 60
    /\ st.winnerInfo.allWinners[2].winnings = 40
    /\ st.winnerInfo.allWinners[2].name = "Alice"

\* C26: a heard preview becomes the held preview, whatever preview was
\* held, and every other field of the held state stays as it was.
C26_PreviewStored ==
    [][ (lastEvent'.type = "gate_preview" /\ lastEvent'.heard)
            => st' = [st EXCEPT !.gatePreview = lastEvent'.payload] ]_vars

C26_Witness ==
    /\ HeardEvent(lastEvent, "gate_preview")
    /\ lastEvent.hadOther
    /\ st.gatePreview = lastEvent.payload
    /\ st.gameState # null
    /\ st.lobby # null
    /\ st.error # NoError

\* C27: every open has emitted its first join by the end of the step that
\* opens it (at time 0, before any listener of it can hear an event) and
\* has emitted one or two joins in all, each with the table id and viewer
\* id the view was opened with.
C27_JoinsPerOpen ==
    /\ \A k \in 1..Len(opens) :
          /\ Len(opens[k].joins) \in {1, 2}
          /\ opens[k].joins[1].at = 0
          /\ \A i \in 1..Len(opens[k].joins) :
                /\ opens[k].joins[i].lobby_id = opens[k].lobbyId
                /\ opens[k].joins[i].player_id = opens[k].playerId
    /\ view = "open" =>
          /\ opens[Cur].joins[1].lobby_id = lobbyId
          /\ opens[Cur].joins[1].player_id = playerId
    /\ lastEvent.type = "open" => Len(opens[lastEvent.open].joins) = 1

C27_Witness ==
    /\ Len(opens) = 2
    /\ Len(opens[1].joins) = 2
    /\ opens[1].permAt = "pending"
    /\ Len(opens[2].joins) = 2
    /\ opens[2].joins[2].lobby_id = lobbyId
    /\ opens[2].joins[2].lobby_id # opens[1].joins[2].lobby_id

\* C28: the viewer's history never holds two records stored with original
\* card 'Unknown' that agree in result card, gate and phase, however often
\* the partial gate event is delivered.
C28_PartialGateOnce ==
    \A pid \in DOMAIN st.cardHistory :
        \A i, j \in 1..Len(st.cardHistory[pid]) :
            ( /\ i < j
              /\ st.cardHistory[pid][i].originalCard = "Unknown"
              /\ st.cardHistory[pid][j].originalCard = "Unknown" )
                => <<st.cardHistory[pid][i].resultCard, st.cardHistory[pid][i].gate,
                     st.cardHistory[pid][i].phase>>
                   # <<st.cardHistory[pid][j].resultCard, st.cardHistory[pid][j].gate,
                       st.cardHistory[pid][j].phase>>

\* The content key of a stored record, and of a gate event in a phase (an
\* absent original card counting as 'Unknown', as it is stored).
KeyOfRecord(r) == <<r.originalCard, r.resultCard, r.gate, r.phase>>

KeyOfEvent(gateInfo, phase) ==
    << IF Has(gateInfo, "original_card") THEN gateInfo.original_card ELSE "Unknown",
       gateInfo.result_card, gateInfo.gate, phase >>

GateStep ==
    /\ lastEvent'.type = "game:update"
    /\ lastEvent'.heard
    /\ Has(lastEvent'.payload, "result")
    /\ Has(lastEvent'.payload.result, "gate_applied")
    /\ lastEvent'.payload.result.gate_applied
    /\ Has(lastEvent'.payload.result, "gate_info")
    /\ Has(lastEvent'.payload.state, "players")
    /\ playerId \in DOMAIN lastEvent'.payload.state.players

\* C29: a gate event for a viewer who is in the snapshot, with a content
\* key (original, result, gate, phase) no record of the viewer has yet,
\* adds exactly one record, with that key, at the end.
C29_NewKeyAddsOne ==
    [][ GateStep =>
          LET key == KeyOfEvent(lastEvent'.payload.result.gate_info,
                                lastEvent'.payload.state.phase)
              h == st.cardHistory[playerId]
              h2 == st'.cardHistory[playerId]
          IN (\A i \in 1..Len(h) : KeyOfRecord(h[i]) # key)
                => /\ Len(h2) = Len(h) + 1
                   /\ SubSeq(h2, 1, Len(h)) = h
                   /\ KeyOfRecord(h2[Len(h2)]) = key ]_vars

C29_Witness ==
    /\ HeardEvent(lastEvent, "game:update")
    /\ Len(st.cardHistory["p1"]) = 2
    /\ st.cardHistory["p1"][1].originalCard = "7C"
    /\ st.cardHistory["p1"][2].originalCard = "7C"
    /\ st.cardHistory["p1"][1].resultCard = st.cardHistory["p1"][2].resultCard
    /\ st.cardHistory["p1"][1].gate = st.cardHistory["p1"][2].gate
    /\ st.cardHistory["p1"][1].phase = "flop"
    /\ st.cardHistory["p1"][2].phase = "complete"

\* C30: an auto-win outcome has the payload's winnings, 0 when absent, is
\* no tie, has one winner entry with the headline's name and winnings, and
\* has isCurrentPlayer iff the winner id is the viewer id.
C30_AutoWinFields ==
    [][ AutoWinStep
            => LET r == lastEvent'.payload.result
                   info == st'.winnerInfo
               IN /\ info.winnings = IF Has(r, "winnings") THEN r.winnings ELSE 0
                  /\ ~info.isTie
                  /\ Len(info.allWinners) = 1
                  /\ info.allWinners[1].name = info.playerName
                  /\ info.allWinners[1].winnings = info.winnings
                  /\ info.isCurrentPlayer = (r.winner = playerId) ]_vars

C30_Witness ==
    /\ HeardEvent(lastEvent, "game:update")
    /\ lastEvent.payload.state.phase = "complete"
    /\ C10_AutoWinFlagged(lastEvent.payload)
    /\ ~Has(lastEvent.payload.result, "winnings")
    /\ lastEvent.payload.result.winner = playerId
    /\ st.winnerInfo # null
    /\ st.winnerInfo.isAutoWin
    /\ st.winnerInfo.winnings = 0
    /\ st.winnerInfo.isCurrentPlayer

\* C31: a heard game update whose phase is not complete leaves the outcome
\* and the popup flag as they were, whatever its result payload carries.
C31_OnlyCompleteResolves ==
    [][ ( /\ lastEvent'.type = "game:update"
          /\ lastEvent'.heard
          /\ lastEvent'.payload.state.phase # "complete" )
            => ( /\ st'.winnerInfo = st.winnerInfo
                 /\ st'.showWinnerPopup = st.showWinnerPopup ) ]_vars

C31_Witness ==
    /\ HeardEvent(lastEvent, "game:update")
    /\ lastEvent.payload.state.phase = "flop"
    /\ Has(lastEvent.payload.state, "players")
    /\ C10_AutoWinFlagged(lastEvent.payload)
    /\ st.winnerInfo = null
    /\ ~st.showWinnerPopup

\* C32 as stated: while a table is open the ledger has records under the
\* viewer's id only.
C32_OnlyViewerEntries ==
    view = "open"
        => \A q \in DOMAIN st.cardHistory :
              q # playerId => st.cardHistory[q] = <<>>

\* C32 amended: a step changes the ledger only if it is a heard game update
\* whose result has gate_applied and gate_info and whose snapshot has the
\* viewer among its players, and then only the list of the viewer of that
\* moment changes; lists filed under earlier viewer ids stay as they are.
C32_FiledUnderViewer ==
    [][ st'.cardHistory # st.cardHistory
          => /\ GateStep
             /\ \A q \in DOMAIN st.cardHistory :
                   q # playerId => st'.cardHistory[q] = st.cardHistory[q]
             /\ Len(st'.cardHistory[playerId]) = Len(st.cardHistory[playerId]) + 1 ]_vars

C32_Witness ==
    /\ HeardEvent(lastEvent, "game:update")
    /\ GateCond(lastEvent.payload)
    /\ playerId = "p2"
    /\ Len(st.cardHistory["p2"]) = 1
    /\ Len(st.cardHistory["p1"]) = 1

\* C33: a load that settles while its page is mounted ends with loading
\* false; when the lobby fetch succeeded the held snapshot is what the
\* game-state fetch gave (null when it failed) and the load sets no error;
\* when the lobby fetch failed the error is 'Failed to load game data'.
C33_LoadSettles ==
    [][ (lastEvent'.type = "load" /\ view = "open")
          => /\ ~st'.loading
             /\ IF lastEvent'.lobbyOk
                THEN /\ st'.gameState = lastEvent'.gameData
                     /\ st'.error = st.error
                ELSE st'.error = MsgLoadFailed ]_vars

C33_Witness ==
    /\ lastEvent.type = "load"
    /\ lastEvent.lobbyOk
    /\ lastEvent.gameData = null
    /\ view = "open"
    /\ st.gameState = null
    /\ st.lobby # null
    /\ st.error = NoError
    /\ ~st.loading

C33_FailureWitness ==
    /\ lastEvent.type = "load"
    /\ ~lastEvent.lobbyOk
    /\ view = "open"
    /\ st.error = MsgLoadFailed
    /\ ~st.loading

\* C34: the in-memory token and user are both set or both unset; the start
\* load sets them exactly when both persisted keys are present and usable;
\* after logout both are unset and both persisted keys are absent.
TokenSet == auth.token \notin {NoToken, ""}

UserSet == auth.user \notin {null, undefined}

C34_BothOrNeither == TokenSet <=> UserSet

C34_Usable(store) ==
    /\ StoredTruthy(store, "access_token")
    /\ StoredTruthy(store, "user")
    /\ ~ParseThrows(store.user)
    /\ Parse(store.user) # null

C34_StartStep ==
    lastEvent'.type = "auth:load"
        => /\ (auth'.token \notin {NoToken, ""}) <=> C34_Usable(storage)
           /\ (auth'.user \notin {null, undefined}) <=> C34_Usable(storage)

C34_LogoutStep ==
    lastEvent'.type = "auth:logout"
        => /\ auth'.token = NoToken
           /\ auth'.user = null
           /\ ~Has(storage', "access_token")
           /\ ~Has(storage', "user")

C34_Start == [][C34_StartStep]_vars

C34_AfterLogout == [][C34_LogoutStep]_vars

C34_SessionConsistent ==
    []C34_BothOrNeither /\ [][C34_StartStep /\ C34_LogoutStep]_vars

\* C35: the lobby list has at most one entry per lobby_id; a lobby update
\* for a listed id replaces that entry where it stands and leaves the other
\* entries and the length as they are, and an update for an unlisted id is
\* appended at the end.
C35_Listed(list, id) == \E i \in 1..Len(list) : list[i].lobby_id = id

C35_UpsertStep ==
    lastEvent'.type = "home:lobby:update"
        => LET lobby == lastEvent'.lobby
           IN IF C35_Listed(lobbies, lobby.lobby_id)
              THEN /\ Len(lobbies') = Len(lobbies)
                   /\ \A i \in 1..Len(lobbies) :
                         lobbies'[i] = IF lobbies[i].lobby_id = lobby.lobby_id
                                       THEN lobby ELSE lobbies[i]
              ELSE lobbies' = Append(lobbies, lobby)

C35_OneEntryPerLobby == []DistinctIds(lobbies) /\ [][C35_UpsertStep]_vars

C35_Witness ==
    /\ lastEvent.type = "home:lobby:update"
    /\ Len(lobbies) = MaxLobbies
    /\ lobbies[1] = lastEvent.lobby
    /\ lobbies[1].in_game
    /\ ~lobbies[2].in_game

\* C36: whenever the evaluator ran, it would have said the same with any
\* other is_active flags in the snapshot's players map, and with
\* betting_state absent from the snapshot it said complete; no render gets
\* as far as the evaluator with a snapshot on which its line 284 throws.
C36_OnlyBettingState ==
    /\ lastEvent.type = "render" => lastEvent.betting # "threw"
    /\ EvaluatorRan
        => /\ \A m \in ActivePlayerMaps :
                 RenderedBetting([st.gameState EXCEPT !.players = m]) = lastEvent.betting
           /\ ~Has(st.gameState, "betting_state") => lastEvent.betting = "complete"

C36_Witness ==
    /\ EvaluatorRan
    /\ lastEvent.betting = "waiting"
    /\ Cardinality(Contesting) >= 2
    /\ st.gameState.players \in ActivePlayerMaps
    /\ ~st.gameState.players["p1"].is_active
    /\ ~st.gameState.players["p2"].is_active

C36_AbsentWitness ==
    /\ EvaluatorRan
    /\ ~Has(st.gameState, "betting_state")
    /\ st.gameState.players \in ActivePlayerMaps
    /\ lastEvent.betting = "complete"

====
